---- MODULE Spec2Model ----
(***************************************************************************)
(* Model of scripts/pandoc-html.py: a straight-line wrapper that resolves  *)
(* an input and an output path from argv[1] and two environment variables, *)
(* spawns /usr/bin/pandoc with both standard streams captured in pipes,    *)
(* waits for it, drains the pipes and prints a report on failure.          *)
(*                                                                         *)
(* A string is a sequence of pieces; the path separator "/" is always a    *)
(* piece of its own, so that basename and join act on it as the library    *)
(* does.  The converter and the operating system (pipes, signals, the file *)
(* system) are the environment of the script and are modelled by what the  *)
(* script can observe of them.                                             *)
(***************************************************************************)
EXTENDS Integers, Sequences, FiniteSets, TLC

\* ---------------------------------------------------------------- bounds
\* longest command-line argument, in pieces
MaxArgLen == 3
\* capacity of one capture pipe, in chunks
PipeCap == 2
\* most chunks the converter writes to one stream: one more than a pipe holds
MaxWrite == PipeCap + 1

\* ------------------------------------------------------------ value sets
Sep == "/"
ArgPieces == {"n", Sep}
Unset == <<"<unset>">>
SourceRoots == {<<>>, <<"s">>, <<"s", Sep>>}
BuildRoots == {<<>>, <<"b">>, <<"b", Sep>>}
MdContents == {"absent", "m1"}
OutChunk == "out"
ErrChunk == "boom"
SIGKILL == 9

RECURSIVE SeqsUpTo(_, _)
SeqsUpTo(S, n) ==
  IF n = 0 THEN {<<>>}
  ELSE LET shorter == SeqsUpTo(S, n - 1)
       IN shorter \cup {Append(s, x) : s \in {t \in shorter : Len(t) = n - 1}, x \in S}

\* os.environ: a variable that is not set is not a key of the mapping
EnvOf(s, b) ==
  LET keys == (IF s = Unset THEN {} ELSE {"MESON_SOURCE_ROOT"})
              \cup (IF b = Unset THEN {} ELSE {"MESON_BUILD_ROOT"})
  IN [k \in keys |-> IF k = "MESON_SOURCE_ROOT" THEN s ELSE b]
Environs == {EnvOf(s, b) : s \in SourceRoots \cup {Unset}, b \in BuildRoots \cup {Unset}}

Args == SeqsUpTo(ArgPieces, MaxArgLen)
Repeat(x, n) == [i \in 1..n |-> x]

\* ------------------------------------------------------ library functions
\* str.rfind(c): highest 0-based index of c, or -1
RFind(p, c) ==
  LET hits == {k \in 1..Len(p) : p[k] = c}
  IN IF hits = {} THEN -1
     ELSE (CHOOSE k \in hits : \A j \in hits : j <= k) - 1

\* os.path.basename(p): i = p.rfind('/') + 1; return p[i:]
Basename(p) == SubSeq(p, RFind(p, Sep) + 2, Len(p))

\* os.path.join(a, b) of posixpath
Join(a, b) ==
  IF b # <<>> /\ Head(b) = Sep THEN b
  ELSE IF a = <<>> \/ a[Len(a)] = Sep THEN a \o b
  ELSE a \o <<Sep>> \o b

\* str(int) as the f-string renders it: a sign and decimal digits
Digit(d) == <<"0", "1", "2", "3", "4", "5", "6", "7", "8", "9">>[d + 1]
RECURSIVE Digits(_)
Digits(n) == IF n < 10 THEN <<Digit(n)>> ELSE Append(Digits(n \div 10), Digit(n % 10))
IntToStr(n) == IF n < 0 THEN <<"-">> \o Digits(-n) ELSE Digits(n)

\* repr of a bytes object holding printable ASCII chunks: b'...'
BytesRepr(b) == <<"b'">> \o b \o <<"'">>

\* ------------------------------------------------------------------ state
VARIABLES
  argv,               \* sys.argv[1:], the arguments after the script name
  environ,            \* os.environ restricted to the two variables read
  mdContent,          \* content of the markdown files of the source tree
  fs,                 \* files written so far: path -> content
  conv,               \* what the converter has been seen to do: a deterministic
                      \* converter repeats it for the same command and input
  run,                \* "first" or "second" invocation of the script
  fsAtStart,          \* fs when the current invocation started
  prevExit,           \* exit statuses of the previous invocation's child: none or one
  pc,                 \* source line the script is about to execute
  fname, meson_source_root, meson_build_root, infile, outfile, cmd,
  ret, output, errors,
  printed,            \* lines the script has printed on its standard output
  exc,                \* the unhandled exception that ended the script, if any
  exitStatus,         \* exit status of the script's own process
  child,              \* the spawned converter process
  outPipe, errPipe    \* chunks buffered in the two capture pipes

envVars == <<argv, environ, mdContent>>
locals == <<fname, meson_source_root, meson_build_root, infile, outfile, cmd,
            ret, output, errors>>
procVars == <<child, outPipe, errPipe>>
endVars == <<printed, exc, exitStatus>>
runVars == <<run, fsAtStart, prevExit>>
vars == <<envVars, fs, conv, runVars, pc, locals, endVars, procVars>>

None == <<"<none>">>
\* the build directory holds the output of an earlier build of document n
StaleBuild == (<<"b", Sep, "n", ".html">> :> "stale")
NoExc == [type |-> "none", key |-> ""]
NoChild == [state |-> "none", argv |-> <<>>, plan |-> None,
            outLeft |-> <<>>, errLeft |-> <<>>, status |-> None]

Init ==
  /\ argv \in {<<>>} \cup {<<a>> : a \in Args}
  /\ environ \in Environs
  /\ mdContent \in MdContents
  /\ fs = StaleBuild
  /\ conv = {}
  /\ run = "first"
  /\ fsAtStart = fs
  /\ prevExit = {}
  /\ pc = "l13"
  /\ fname = None /\ meson_source_root = None /\ meson_build_root = None
  /\ infile = None /\ outfile = None /\ cmd = None
  /\ ret = None /\ output = None /\ errors = None
  /\ printed = <<>> /\ exc = NoExc /\ exitStatus = None
  /\ child = NoChild /\ outPipe = <<>> /\ errPipe = <<>>

\* ------------------------------------------------- the script, line by line
\* an unhandled exception: traceback on stderr, exit status 1, nothing after
Raise(type, key) ==
  /\ exc' = [type |-> type, key |-> key]
  /\ exitStatus' = 1
  /\ pc' = "done"

\* line 13: fname = os.path.basename(sys.argv[1])
FnameKeepsDirs == argv[1]
Fname == Basename(argv[1])

ParseArg ==
  /\ pc = "l13" /\ Len(argv) >= 1
  /\ fname' = Fname
  /\ pc' = "l16"
  /\ UNCHANGED <<envVars, fs, conv, runVars, meson_source_root, meson_build_root,
                 infile, outfile, cmd, ret, output, errors, endVars, procVars>>

ParseArgFails ==
  /\ pc = "l13" /\ Len(argv) = 0
  /\ Raise("IndexError", "")
  /\ UNCHANGED <<envVars, fs, conv, runVars, locals, printed, procVars>>

\* lines 16-17: os.environ[key] raises KeyError(key) for a missing key
EnvLookupDefaults(key) == FALSE
EnvLookupFails(key) == key \notin DOMAIN environ
EnvValue(key) == IF key \in DOMAIN environ THEN environ[key] ELSE <<>>

GetSourceRoot ==
  /\ pc = "l16" /\ ~EnvLookupFails("MESON_SOURCE_ROOT")
  /\ meson_source_root' = EnvValue("MESON_SOURCE_ROOT")
  /\ pc' = "l17"
  /\ UNCHANGED <<envVars, fs, conv, runVars, fname, meson_build_root,
                 infile, outfile, cmd, ret, output, errors, endVars, procVars>>

GetSourceRootFails ==
  /\ pc = "l16" /\ EnvLookupFails("MESON_SOURCE_ROOT")
  /\ Raise("KeyError", "MESON_SOURCE_ROOT")
  /\ UNCHANGED <<envVars, fs, conv, runVars, locals, printed, procVars>>

GetBuildRoot ==
  /\ pc = "l17" /\ ~EnvLookupFails("MESON_BUILD_ROOT")
  /\ meson_build_root' = EnvValue("MESON_BUILD_ROOT")
  /\ pc' = "l20"
  /\ UNCHANGED <<envVars, fs, conv, runVars, fname, meson_source_root,
                 infile, outfile, cmd, ret, output, errors, endVars, procVars>>

GetBuildRootFails ==
  /\ pc = "l17" /\ EnvLookupFails("MESON_BUILD_ROOT")
  /\ Raise("KeyError", "MESON_BUILD_ROOT")
  /\ UNCHANGED <<envVars, fs, conv, runVars, locals, printed, procVars>>

\* line 20: infile = os.path.join(meson_source_root, fname + '.md')
InfileFromBuildRoot == Join(meson_build_root, fname \o <<".md">>)
Infile == Join(meson_source_root, fname \o <<".md">>)

MakeInfile ==
  /\ pc = "l20"
  /\ infile' = Infile
  /\ pc' = "l21"
  /\ UNCHANGED <<envVars, fs, conv, runVars, fname, meson_source_root,
                 meson_build_root, outfile, cmd, ret, output, errors, endVars,
                 procVars>>

\* line 21: outfile = os.path.join(meson_build_root, fname + '.html')
OutfilePerRun ==
  Join(meson_build_root, fname \o <<IF run = "first" THEN ".html" ELSE ".1.html">>)
Outfile == Join(meson_build_root, fname \o <<".html">>)

MakeOutfile ==
  /\ pc = "l21"
  /\ outfile' = Outfile
  /\ pc' = "l24"
  /\ UNCHANGED <<envVars, fs, conv, runVars, fname, meson_source_root,
                 meson_build_root, infile, cmd, ret, output, errors, endVars,
                 procVars>>

\* line 24: cmd = ['/usr/bin/pandoc', '-f', 'markdown', '-s', infile, '-o', outfile]
CmdSwapped ==
  <<(<<"/usr/bin/pandoc">>), (<<"-f">>), (<<"markdown">>), (<<"-s">>),
    outfile, (<<"-o">>), infile>>
Cmd ==
  <<(<<"/usr/bin/pandoc">>), (<<"-f">>), (<<"markdown">>), (<<"-s">>),
    infile, (<<"-o">>), outfile>>

BuildCmd ==
  /\ pc = "l24"
  /\ cmd' = Cmd
  /\ pc' = "l30"
  /\ UNCHANGED <<envVars, fs, conv, runVars, fname, meson_source_root,
                 meson_build_root, infile, outfile, ret, output, errors, endVars,
                 procVars>>

\* ------------------------------------------- the converter and the pipes
\* how the converter reads its command line: -f and -o take a value, the
\* first remaining word after argv[0] is the input file
Flags == {<<"-f">>, <<"-s">>, <<"-o">>}
ValueFlags == {<<"-f">>, <<"-o">>}
Positional(a) == {i \in 2..Len(a) : a[i] \notin Flags /\ a[i - 1] \notin ValueFlags}
InputArg(a) == a[CHOOSE i \in Positional(a) : \A j \in Positional(a) : i <= j]
OutputArg(a) == a[1 + CHOOSE i \in 1..Len(a) - 1 : a[i] = <<"-o">>]

\* the source tree: every markdown file has content mdContent, or none exists
ReadFile(path) ==
  IF path # <<>> /\ path[Len(path)] = ".md" THEN mdContent ELSE "absent"
Convert(md) == <<"html", md>>

\* what a converter may do when run with command line a on input md: it
\* fails on a missing input, and otherwise exits 0 or 2 after writing some
\* chunks to each of its standard streams
Behaviours(a, md) ==
  [argv : {a}, md : {md},
   ret : IF md = "absent" THEN {1} ELSE {0, 2},
   out : {Repeat(OutChunk, n) : n \in 0..MaxWrite},
   err : {Repeat(ErrChunk, n) : n \in 0..MaxWrite}]

\* what the child has written to its stdout and stderr so far
WrittenOut(c) == SubSeq(c.plan.out, 1, Len(c.plan.out) - Len(c.outLeft))
WrittenErr(c) == SubSeq(c.plan.err, 1, Len(c.plan.err) - Len(c.errLeft))

\* a write to a pipe blocks while the pipe is full
ChildWriteOut ==
  /\ child.state = "running" /\ child.outLeft # <<>>
  /\ Len(outPipe) < PipeCap
  /\ outPipe' = Append(outPipe, Head(child.outLeft))
  /\ child' = [child EXCEPT !.outLeft = Tail(@)]
  /\ UNCHANGED <<envVars, fs, conv, runVars, pc, locals, endVars, errPipe>>

ChildWriteErr ==
  /\ child.state = "running" /\ child.errLeft # <<>>
  /\ Len(errPipe) < PipeCap
  /\ errPipe' = Append(errPipe, Head(child.errLeft))
  /\ child' = [child EXCEPT !.errLeft = Tail(@)]
  /\ UNCHANGED <<envVars, fs, conv, runVars, pc, locals, endVars, outPipe>>

\* the converter exits once it has written everything; on success it has
\* written the document to the path given after -o
ChildExit ==
  /\ child.state = "running" /\ child.outLeft = <<>> /\ child.errLeft = <<>>
  /\ child' = [child EXCEPT !.state = "exited", !.status = child.plan.ret]
  /\ fs' = IF child.plan.ret = 0
           THEN (OutputArg(child.argv) :> Convert(child.plan.md)) @@ fs
           ELSE fs
  /\ UNCHANGED <<envVars, conv, runVars, pc, locals, endVars, outPipe, errPipe>>

\* a signal may end the converter at any time; wait() then returns -signum
ChildKilled ==
  /\ child.state = "running"
  /\ child' = [child EXCEPT !.state = "exited", !.status = -SIGKILL]
  /\ UNCHANGED <<envVars, fs, conv, runVars, pc, locals, endVars, outPipe, errPipe>>

\* the child can make no step of its own: it has data left and every stream
\* it still has to write to is full
ChildBlocked ==
  /\ child.state = "running"
  /\ child.outLeft # <<>> \/ child.errLeft # <<>>
  /\ child.outLeft # <<>> => Len(outPipe) >= PipeCap
  /\ child.errLeft # <<>> => Len(errPipe) >= PipeCap

\* --------------------------------------------------- lines 30 to 41
\* line 30: proc = subprocess.Popen(cmd, stdout=PIPE, stderr=PIPE)
Spawn ==
  /\ pc = "l30"
  /\ \E plan \in Behaviours(cmd, ReadFile(InputArg(cmd))) :
       /\ \A c \in conv : (c.argv = plan.argv /\ c.md = plan.md) => c = plan
       /\ conv' = conv \cup {plan}
       /\ child' = [state |-> "running", argv |-> cmd, plan |-> plan,
                    outLeft |-> plan.out, errLeft |-> plan.err, status |-> None]
  /\ outPipe' = <<>> /\ errPipe' = <<>>
  /\ pc' = "l33"
  /\ UNCHANGED <<envVars, fs, runVars, locals, endVars>>

\* the executable is missing or not executable: Popen raises
SpawnFails ==
  /\ pc = "l30"
  /\ Raise("FileNotFoundError", "/usr/bin/pandoc")
  /\ UNCHANGED <<envVars, fs, conv, runVars, locals, printed, procVars>>

\* line 33: ret = proc.wait() returns once the child has terminated
WaitIsPoll == TRUE
WaitReturns == child.state = "exited"

Wait ==
  /\ pc = "l33" /\ WaitReturns
  /\ ret' = child.status
  /\ pc' = "l36"
  /\ UNCHANGED <<envVars, fs, conv, runVars, fname, meson_source_root,
                 meson_build_root, infile, outfile, cmd, output, errors, endVars,
                 procVars>>

\* line 36: output, errors = proc.communicate() reads both pipes to end of
\* file, which comes when the child has closed its ends
Communicate ==
  /\ pc = "l36" /\ child.state = "exited"
  /\ output' = outPipe /\ errors' = errPipe
  /\ outPipe' = <<>> /\ errPipe' = <<>>
  /\ pc' = "l39"
  /\ UNCHANGED <<envVars, fs, conv, runVars, fname, meson_source_root,
                 meson_build_root, infile, outfile, cmd, ret, endVars, child>>

\* line 39: if ret
ReportsOnlyPositive(r) == r > 0
ReportsAlways(r) == TRUE
ShouldReport(r) == r # 0

\* lines 40-41: the two print calls
FailureLines(r, o, e) ==
  << <<"FAILED ret=">> \o IntToStr(r),
     <<"output=">> \o BytesRepr(o) \o <<" errors=">> \o BytesRepr(e) >>

\* the script falls off its end: the interpreter exits with status 0
ExitPropagates(r) == IF r # 0 THEN 1 ELSE 0
ExitStatusAtEnd(r) == 0

Report ==
  /\ pc = "l39"
  /\ printed' = IF ShouldReport(ret)
                THEN printed \o FailureLines(ret, output, errors)
                ELSE printed
  /\ exitStatus' = ExitStatusAtEnd(ret)
  /\ pc' = "done"
  /\ UNCHANGED <<envVars, fs, conv, runVars, locals, exc, procVars>>

\* the script is invoked a second time with the same argument and environment
Rerun ==
  /\ pc = "done" /\ run = "first"
  /\ run' = "second"
  /\ fsAtStart' = fs
  /\ prevExit' = IF child.state = "exited" THEN {child.status} ELSE {}
  /\ pc' = "l13"
  /\ fname' = None /\ meson_source_root' = None /\ meson_build_root' = None
  /\ infile' = None /\ outfile' = None /\ cmd' = None
  /\ ret' = None /\ output' = None /\ errors' = None
  /\ printed' = <<>> /\ exc' = NoExc /\ exitStatus' = None
  /\ child' = NoChild /\ outPipe' = <<>> /\ errPipe' = <<>>
  /\ UNCHANGED <<envVars, fs, conv>>

Next ==
  \/ ParseArg \/ ParseArgFails
  \/ GetSourceRoot \/ GetSourceRootFails
  \/ GetBuildRoot \/ GetBuildRootFails
  \/ MakeInfile \/ MakeOutfile \/ BuildCmd
  \/ Spawn \/ SpawnFails
  \/ ChildWriteOut \/ ChildWriteErr \/ ChildExit \/ ChildKilled
  \/ Wait \/ Communicate \/ Report
  \/ Rerun

Spec == Init /\ [][Next]_vars

\* ============================================================ properties
\* root and base joined by exactly one separator, then the suffix
ExpectedPath(root, base, suffix) ==
  (IF root = <<>> THEN <<>>
   ELSE IF root[Len(root)] = Sep THEN root ELSE Append(root, Sep))
  \o base \o <<suffix>>

\* the part of a after its last separator
LastComponent(a) ==
  CHOOSE t \in {SubSeq(a, k, Len(a)) : k \in 1..Len(a) + 1} :
    /\ \A i \in 1..Len(t) : t[i] # Sep
    /\ Len(t) = Len(a) \/ a[Len(a) - Len(t)] = Sep

Contains(line, part) ==
  \E i \in 1..Len(line) + 1 :
    i + Len(part) - 1 <= Len(line) /\ SubSeq(line, i, i + Len(part) - 1) = part

\* the integer a decimal rendering denotes
DigitValue(c) == CHOOSE d \in 0..9 : Digit(d) = c
RECURSIVE Unsigned(_)
Unsigned(s) ==
  IF s = <<>> THEN 0 ELSE 10 * Unsigned(SubSeq(s, 1, Len(s) - 1)) + DigitValue(s[Len(s)])
StrToInt(s) == IF s # <<>> /\ Head(s) = "-" THEN -Unsigned(Tail(s)) ELSE Unsigned(s)

EnvComplete == DOMAIN environ = {"MESON_SOURCE_ROOT", "MESON_BUILD_ROOT"}
LookupErrors == {"KeyError", "IndexError"}
ChildExited == child.state = "exited"

\* C1: with MESON_SOURCE_ROOT or MESON_BUILD_ROOT unset the script never gets
\* past the two lookups: no child is ever spawned, no file is created or
\* modified, and the run ends in an unhandled lookup error (a KeyError naming
\* a variable that is unset, when an argument was given).
C1_MissingEnvStopsBeforeSpawn ==
  ~EnvComplete =>
    /\ pc \in {"l13", "l16", "l17", "done"}
    /\ child.state = "none"
    /\ fs = fsAtStart
    /\ pc = "done" =>
         /\ exc.type \in LookupErrors
         /\ exitStatus = 1
         /\ Len(argv) >= 1 => exc.type = "KeyError" /\ exc.key \notin DOMAIN environ

C1_Witness ==
  /\ pc = "done" /\ Len(argv) >= 1
  /\ DOMAIN environ = {"MESON_SOURCE_ROOT"}
  /\ exc = [type |-> "KeyError", key |-> "MESON_BUILD_ROOT"]
  /\ DOMAIN fs # {}

\* C2: when the child has exited with a non-zero status, negative ones
\* included, the finished script has printed exactly two lines: the first
\* ends in the decimal rendering of that status, the second contains what
\* the child wrote to stdout and what it wrote to stderr; for status 2 with
\* boom on stderr the text contains 2 and boom.
C2_FailureIsReported ==
  (pc = "done" /\ ChildExited /\ child.status # 0) =>
    /\ Len(printed) = 2
    /\ Head(printed[1]) = "FAILED ret="
    /\ StrToInt(Tail(printed[1])) = child.status
    /\ Contains(printed[2], WrittenOut(child))
    /\ Contains(printed[2], WrittenErr(child))
    /\ (child.status = 2 /\ WrittenErr(child) # <<>>) =>
         /\ \E i \in 1..Len(printed[1]) : printed[1][i] = "2"
         /\ \E i \in 1..Len(printed[2]) : printed[2][i] = "boom"

C2_Witness ==
  /\ pc = "done" /\ ChildExited /\ child.status = 2
  /\ WrittenErr(child) = <<"boom">>
  /\ Len(printed) = 2

\* C3: when the child has exited with status 0 the script prints nothing,
\* whatever the child wrote, and the only file that differs from the start of
\* the run is the output path, which holds the converter's output.
C3_SuccessIsSilent ==
  (ChildExited /\ child.status = 0) =>
    /\ printed = <<>>
    /\ DOMAIN fs = DOMAIN fsAtStart \cup {outfile}
    /\ \A p \in DOMAIN fsAtStart : p # outfile => fs[p] = fsAtStart[p]
    /\ fs[outfile] = Convert(mdContent)

C3_Witness ==
  /\ pc = "done" /\ ChildExited /\ child.status = 0
  /\ WrittenOut(child) # <<>> /\ WrittenErr(child) # <<>>
  /\ printed = <<>>
  /\ outfile \notin DOMAIN fsAtStart

\* C4: once the child was spawned and has exited, the script ends normally
\* with exit status 0 and no exception, whatever the child's status.
C4_FailureNotPropagated ==
  (pc = "done" /\ ChildExited) => exitStatus = 0 /\ exc = NoExc

C4_Witness ==
  /\ pc = "done" /\ ChildExited /\ child.status # 0
  /\ exitStatus = 0

Spawned == child.state # "none"
SourceRoot == environ["MESON_SOURCE_ROOT"]
BuildRoot == environ["MESON_BUILD_ROOT"]

\* C5: for a non-empty base name and non-empty roots, the input path built,
\* and the one the converter is given, is the source root, one separator
\* (none added when the root ends in one) and the base name with .md; the
\* output path is the same of the build root with .html.  Neither expression
\* mentions the other root.
C5_PathsFromRoots ==
  (EnvComplete /\ fname # None /\ fname # <<>>) =>
    /\ (infile # None /\ SourceRoot # <<>>) =>
         infile = ExpectedPath(SourceRoot, fname, ".md")
    /\ (outfile # None /\ BuildRoot # <<>>) =>
         outfile = ExpectedPath(BuildRoot, fname, ".html")
    /\ (Spawned /\ SourceRoot # <<>>) =>
         InputArg(child.argv) = ExpectedPath(SourceRoot, fname, ".md")
    /\ (Spawned /\ BuildRoot # <<>>) =>
         OutputArg(child.argv) = ExpectedPath(BuildRoot, fname, ".html")

C5_Witness ==
  /\ Spawned
  /\ SourceRoot = <<"s">> /\ BuildRoot = <<"b", Sep>> /\ fname = <<"n">>
  /\ InputArg(child.argv) = <<"s", Sep, "n", ".md">>
  /\ OutputArg(child.argv) = <<"b", Sep, "n", ".html">>

\* C6: the base name is the argument's last component: it holds no
\* separator, and both paths are those built from the last component alone,
\* so nothing before the argument's last separator shows in them; an
\* argument ending in a separator gives the empty base name and the paths
\* S/.md and D/.html.
C6_DirectoryStripped ==
  fname # None =>
    LET name == LastComponent(argv[1]) IN
    /\ fname = name
    /\ \A i \in 1..Len(fname) : fname[i] # Sep
    /\ Basename(fname) = fname
    /\ infile # None => infile = ExpectedPath(SourceRoot, name, ".md")
    /\ outfile # None => outfile = ExpectedPath(BuildRoot, name, ".html")
    /\ (argv[1] # <<>> /\ argv[1][Len(argv[1])] = Sep) =>
         /\ fname = <<>>
         /\ (infile # None /\ SourceRoot = <<"s">>) => infile = <<"s", Sep, ".md">>
         /\ (outfile # None /\ BuildRoot = <<"b">>) => outfile = <<"b", Sep, ".html">>

C6_Witness ==
  /\ Len(argv) >= 1 /\ argv[1] = <<"n", Sep, "n">>
  /\ fname = <<"n">>
  /\ infile = <<"s", Sep, "n", ".md">>
  /\ outfile = <<"b", Sep, "n", ".html">>

\* C7: the script only moves forward through parse, resolve, build, spawn,
\* wait, report (or stops at an exception); a child starts only at the spawn
\* line and only when the run has none yet, a run's child is never replaced,
\* and the status is read, the pipes are drained and anything is printed only
\* once the child has terminated.
StepOrder ==
  {<<"l13", "l16">>, <<"l16", "l17">>, <<"l17", "l20">>, <<"l20", "l21">>,
   <<"l21", "l24">>, <<"l24", "l30">>, <<"l30", "l33">>, <<"l33", "l36">>,
   <<"l36", "l39">>, <<"l39", "done">>}
RaisePoints == {"l13", "l16", "l17", "l30"}
NewRun == pc = "done" /\ pc' = "l13"

C7_FixedOrderOneChild ==
  [][ /\ pc' # pc =>
           \/ <<pc, pc'>> \in StepOrder
           \/ pc \in RaisePoints /\ pc' = "done" /\ exc' # NoExc
           \/ NewRun
      /\ (child'.state = "running" /\ child.state # "running") =>
           child.state = "none" /\ pc = "l30" /\ pc' = "l33"
      /\ (Spawned /\ ~NewRun) =>
           child'.argv = child.argv /\ child'.plan = child.plan
      /\ pc' \in {"l36", "l39"} => child'.state = "exited"
      /\ (pc' # pc /\ pc \in {"l33", "l36", "l39"}) => child.state = "exited"
      /\ printed' # printed /\ ~NewRun => child.state = "exited" /\ pc = "l39"
    ]_vars

C7_Witness ==
  /\ pc = "l39" /\ ChildExited /\ ret = 2
  /\ run = "second" /\ prevExit = {2}

\* C8: the child's command line is exactly the seven words /usr/bin/pandoc,
\* -f, markdown, -s, the input path, -o, the output path.
C8_ExactCommand ==
  Spawned =>
    LET name == LastComponent(argv[1]) IN
    child.argv = << <<"/usr/bin/pandoc">>, <<"-f">>, <<"markdown">>, <<"-s">>,
                    ExpectedPath(SourceRoot, name, ".md"), <<"-o">>,
                    ExpectedPath(BuildRoot, name, ".html") >>

C8_Witness ==
  /\ child.state = "running"
  /\ Len(child.argv) = 7
  /\ child.argv[5] = <<"s", Sep, "n", ".md">>
  /\ child.argv[7] = <<"b", Sep, "n", ".html">>
  /\ argv[1] = <<Sep, "n">>

\* C9: when both invocations ran a deterministic converter to its own exit,
\* the second leaves every file as the first left it: the output path holds
\* the same content and no other path is created or changed.
C9_SecondRunSameOutput ==
  (run = "second" /\ pc = "done" /\ ChildExited /\ child.status >= 0
     /\ prevExit # {} /\ \A st \in prevExit : st >= 0) =>
    /\ fs = fsAtStart
    /\ prevExit = {child.status}
    /\ child.status = 0 => outfile \in DOMAIN fs /\ fs[outfile] = Convert(mdContent)

C9_Witness ==
  /\ run = "second" /\ pc = "done" /\ ChildExited /\ child.status = 0
  /\ prevExit = {0}
  /\ fs = fsAtStart /\ fs # StaleBuild

\* C10: the script is never waiting for the child to exit while the child is
\* blocked writing to a full capture pipe.
C10_NoPipeDeadlock == ~(pc = "l33" /\ ChildBlocked)

====
